---- MODULE Spec2Model ----
(***************************************************************************)
(* Affiliate ledger and payout runner of the Kairah Studio backend         *)
(* (src/main.py): the Stripe webhook that records commission earnings and  *)
(* the admin endpoint that pays out affiliates above a threshold.          *)
(*                                                                         *)
(* Money.  The code keeps amounts as Python floats in dollars.  The model  *)
(* keeps the same values exactly, as integers counting 1/10000 of a        *)
(* dollar, so amount_total / 100.0 is cents * 100 and the product with a   *)
(* commission of p percent is (value * p) \div 100, which is exact for     *)
(* every value the webhook can produce.  The gross amounts of StripeEvents *)
(* are such that the double-precision results of the code are these exact  *)
(* values.                                                                 *)
(*                                                                         *)
(* Store.  Firestore collections are modelled as follows:                  *)
(*   affiliates   set of the document ids of collection "affiliates"       *)
(*   earnings     sequence of all documents of the "earnings"              *)
(*                sub-collections; the index is the document id and the    *)
(*                field aff the affiliate document that owns it            *)
(*   payouts      sequence of the documents of "affiliate_payouts"         *)
(*   payments     number of documents of "payments"                        *)
(*   users        function from the ids of the existing "users" documents  *)
(*                to their fields                                          *)
(* Every store call is one atomic step; a handler running in the thread    *)
(* pool (run_affiliate_payouts) interleaves with other requests between    *)
(* two store calls.  stripe_webhook is a coroutine whose store calls block  *)
(* the event loop; its writes (payment record, user plan, affiliate        *)
(* document, earning) are taken as one step.                               *)
(*                                                                         *)
(* generate_video shares only collection "users" with the ledger, which    *)
(* the payout runner never reads.  Its steps are composed with the webhook *)
(* events that carry a uid in a specification of their own, SpecVideo.     *)
(* A document of "users" is a record with the field plan and, once         *)
(* ensure_user_doc or an increment wrote it, the field videos              *)
(* (usage.videos); the other fields are never read by the handlers         *)
(* modelled.  Requests are those that passed get_current_user.             *)
(***************************************************************************)
EXTENDS Integers, Sequences, FiniteSets, TLC

\* ------------------------------------------------------------------ bounds
\* number of webhook requests delivered in a behaviour
MaxDeliveries == 3
\* number of payout requests (each may overlap the others)
MaxRuns == 2
\* number of /generate/video requests (each may overlap the others)
MaxVideoRequests == 3

\* --------------------------------------------------------------- constants
\* Python's None where a string is expected, and where a number is expected
None == "None"
NoAmount == 0 - 1

ADMIN_TOKEN == "change-this-to-a-strong-token"

\* n dollars in the model's unit (1/10000 dollar)
Dollars(n) == n * 10000

\* the literal 500.0 of the payout decision
PayoutThreshold == Dollars(500)

\* the affiliate documents in the order a collection stream yields them
\* (ascending document id)
AffiliateOrder == <<"A1", "A2">>

Runs == 1..MaxRuns

Gens == 1..MaxVideoRequests

\* values of req.uid of a /generate/video request; "u1" is the user the
\* checkout event sess_1 upgrades
VideoUsers == {"u1", "u2"}

\* Deployments (environment variables read at import time):
\*   db          a Firestore client was created
\*   secret      STRIPE_WEBHOOK_SECRET is set
\*   commission  AFFILIATE_COMMISSION, in percent
Environments ==
    { [db |-> TRUE,  secret |-> TRUE,  commission |-> 30],
      [db |-> TRUE,  secret |-> TRUE,  commission |-> 50],
      [db |-> FALSE, secret |-> TRUE,  commission |-> 30],
      [db |-> TRUE,  secret |-> FALSE, commission |-> 30] }

\* The events Stripe may deliver, each any number of times.  An event is
\* identified by the id of its object, so a redelivery has the same content.
StripeEvents ==
    { [type |-> "checkout.session.completed", id |-> "sess_1",
       uid |-> "u1", affiliate_id |-> "A1", amount_total |-> 100000],
      [type |-> "checkout.session.completed", id |-> "sess_2",
       uid |-> None, affiliate_id |-> "A1", amount_total |-> 40000],
      [type |-> "checkout.session.completed", id |-> "sess_3",
       uid |-> None, affiliate_id |-> "A2", amount_total |-> 200000],
      [type |-> "checkout.session.completed", id |-> "sess_4",
       uid |-> None, affiliate_id |-> "", amount_total |-> 100000],
      [type |-> "checkout.session.completed", id |-> "sess_5",
       uid |-> None, affiliate_id |-> "A2", amount_total |-> 0],
      [type |-> "checkout.session.completed", id |-> "sess_6",
       uid |-> None, affiliate_id |-> None, amount_total |-> NoAmount],
      [type |-> "invoice.payment_succeeded", id |-> "in_1",
       uid |-> None, affiliate_id |-> None, amount_total |-> NoAmount] }

\* values of the admin-token header of a payout request
Tokens == {ADMIN_TOKEN, "guess", None}

VARIABLES
    env,         \* the deployment
    affiliates, earnings, payouts, payments, users,   \* the store
    deliveries,  \* webhook requests handled so far
    runs,        \* per payout request: position and locals of the handler
    gens,        \* per /generate/video request: position, uid and the plan
                 \* it read
    jobs,        \* number of documents of "jobs", per uid
    log          \* history, read by no action:
                 \*   payoutOf[i]  the request that added payouts[i] and the
                 \*                earning ids whose amounts it summed
                 \*   read[r][a]   the unpaid total request r read for a
                 \*   after[r]     the requests that had ended when r began
                 \*   lenAt[r]     the number of earnings when r began
                 \*   failedAt[r]  where request r was when it failed, and the
                 \*                affiliates it had not finished (left)
                 \*   token[r]     the admin-token header of request r
                 \*   dropped      verified checkout events that recorded no
                 \*                earning
                 \* The locals of a handler (aid, total, ids, k) are kept only
                 \* while they are live: from the query that sets them to the
                 \* last update that uses them.

vars == <<env, affiliates, earnings, payouts, payments, users, deliveries,
          runs, gens, jobs, log>>

store == <<affiliates, earnings, payouts, payments, users>>

\* ---------------------------------------------------------------- helpers
\* faulty variant: only None counts as absent
TruthyNotNone(v) == v # None

\* Python truthiness of an optional string and of an optional number
Truthy(v) == v # None /\ v # ""
TruthyAmount(v) == v # NoAmount /\ v # 0

\* session.get("amount_total") / 100.0 if session.get("amount_total") else None
AmountOf(session) ==
    IF TruthyAmount(session.amount_total)
    THEN session.amount_total * 100 ELSE NoAmount

\* faulty variant: the part of the payment that is not commission
CommissionComplement(amount, percent) == (amount * (100 - percent)) \div 100

\* amount * AFFILIATE_COMMISSION
Commission(amount, percent) == (amount * percent) \div 100

\* the document the webhook adds to affiliates/<id>/earnings
NewEarning(session, amount, percent) ==
    [aff        |-> session.affiliate_id,
     amount     |-> Commission(amount, percent),
     gross      |-> amount,
     source     |-> "stripe",
     session_id |-> session.id,
     paid       |-> FALSE]

\* faulty variant: the affiliate document is never written
EnsureAffiliateMissing(affs, affiliate) == affs

\* aff_ref.set({"affiliate_id": affiliate}, merge=True)
EnsureAffiliate(affs, affiliate) == affs \cup {affiliate}

\* db.collection("users").document(uid).set({"plan": "Paid"}, merge=True)
\* followed by ensure_user_doc(uid), which finds the document and returns
SetPlanPaid(us, uid) ==
    IF uid \in DOMAIN us
    THEN [us EXCEPT ![uid].plan = "Paid"]
    ELSE [u \in DOMAIN us \cup {uid} |->
            IF u = uid THEN [plan |-> "Paid"] ELSE us[u]]

\* ------------------------------------------------------------------- Init
IdleRun ==
    [pc |-> "idle", affs |-> {}, aid |-> None, total |-> 0, ids |-> <<>>,
     k |-> 0, results |-> <<>>]

IdleGen == [pc |-> "idle", uid |-> None, plan |-> None]

Init ==
    /\ env \in Environments
    /\ gens = [g \in Gens |-> IdleGen]
    /\ jobs = [u \in VideoUsers |-> 0]
    /\ affiliates = {}
    /\ earnings = <<>>
    /\ payouts = <<>>
    /\ payments = 0
    /\ users = <<>>
    /\ deliveries = 0
    /\ runs = [r \in Runs |-> IdleRun]
    /\ log = [payoutOf |-> <<>>,
              read     |-> [r \in Runs |-> <<>>],
              after    |-> [r \in Runs |-> {}],
              lenAt    |-> [r \in Runs |-> 0],
              failedAt |-> [r \in Runs |->
                             [pc |-> None, aid |-> None, left |-> {}]],
              token    |-> [r \in Runs |-> None],
              dropped  |-> 0]

\* --------------------------------------------------------- stripe_webhook
\* 500: STRIPE_WEBHOOK_SECRET is not configured; 400: construct_event raises
WebhookRejected(sigOK) ==
    /\ deliveries < MaxDeliveries
    /\ ~env.secret \/ ~sigOK
    /\ deliveries' = deliveries + 1
    /\ UNCHANGED <<env, store, runs, gens, jobs, log>>

\* a verified checkout.session.completed event
WebhookCheckout(session) ==
    /\ deliveries < MaxDeliveries
    /\ env.secret
    /\ session.type = "checkout.session.completed"
    /\ deliveries' = deliveries + 1
    /\ LET uid       == session.uid
           affiliate == session.affiliate_id
           amount    == AmountOf(session)
       IN  /\ payments' = IF env.db THEN payments + 1 ELSE payments
           /\ users' = IF Truthy(uid) /\ env.db
                       THEN SetPlanPaid(users, uid) ELSE users
           /\ IF Truthy(affiliate) /\ TruthyAmount(amount) /\ env.db
              THEN /\ affiliates' = EnsureAffiliate(affiliates, affiliate)
                   /\ earnings' = Append(earnings,
                                   NewEarning(session, amount, env.commission))
                   /\ UNCHANGED log
              ELSE /\ UNCHANGED <<affiliates, earnings>>
                   /\ log' = [log EXCEPT !.dropped = @ + 1]
    /\ UNCHANGED <<env, payouts, runs, gens, jobs>>

\* a verified invoice.payment_succeeded event: a payment record only
WebhookInvoice(invoice) ==
    /\ deliveries < MaxDeliveries
    /\ env.secret
    /\ invoice.type = "invoice.payment_succeeded"
    /\ deliveries' = deliveries + 1
    /\ payments' = IF env.db THEN payments + 1 ELSE payments
    /\ UNCHANGED <<env, affiliates, earnings, payouts, users, runs, gens,
                   jobs, log>>

\* --------------------------------------------------- run_affiliate_payouts
\* the ids of the documents of affiliates/<aid>/earnings with paid == False,
\* in document order
RECURSIVE UnpaidFrom(_, _, _)
UnpaidFrom(i, aid, es) ==
    IF i > Len(es) THEN <<>>
    ELSE IF es[i].aff = aid /\ es[i].paid = FALSE
         THEN <<i>> \o UnpaidFrom(i + 1, aid, es)
         ELSE UnpaidFrom(i + 1, aid, es)

\* faulty variant: only the most recent unpaid earning is read
UnpaidLatest(aid, es) ==
    LET all == UnpaidFrom(1, aid, es)
    IN  IF all = <<>> THEN <<>> ELSE <<all[Len(all)]>>

\* faulty variant: the query has no filter on paid
UnpaidIgnoringPaid(aid, es) ==
    LET mine == {i \in DOMAIN es : es[i].aff = aid}
        RECURSIVE Asc(_)
        Asc(S) == IF S = {} THEN <<>>
                  ELSE LET m == CHOOSE m \in S : \A x \in S : m <= x
                       IN  <<m>> \o Asc(S \ {m})
    IN  Asc(mine)

\* faulty variant: a collection-group query, the unpaid earnings of every
\* affiliate
UnpaidAnyAffiliate(aid, es) ==
    LET RECURSIVE From(_)
        From(i) == IF i > Len(es) THEN <<>>
                   ELSE IF es[i].paid = FALSE THEN <<i>> \o From(i + 1)
                   ELSE From(i + 1)
    IN  From(1)

UnpaidEarnings(aid, es) == UnpaidFrom(1, aid, es)

\* the loop "total += amt" over the streamed documents
RECURSIVE SumAmounts(_, _)
SumAmounts(ids, es) ==
    IF ids = <<>> THEN 0
    ELSE es[Head(ids)].amount + SumAmounts(Tail(ids), es)

\* faulty variant: the boundary is excluded
MeetsThresholdStrict(total) == total > PayoutThreshold

\* the payout decision
MeetsThreshold(total) == total >= PayoutThreshold

\* the next document of the affiliates stream still to be processed
RECURSIVE FirstOf(_, _)
FirstOf(order, affs) ==
    IF Head(order) \in affs THEN Head(order) ELSE FirstOf(Tail(order), affs)

\* faulty variant: every earning of the affiliate is marked, not the one
\* document addressed
MarkPaidAllOfAffiliate(es, eid) ==
    [i \in DOMAIN es |->
        IF es[i].aff = es[eid].aff THEN [es[i] EXCEPT !.paid = TRUE] ELSE es[i]]

\* faulty variant: the document is replaced (set without merge) instead of
\* updated, which drops its other fields
MarkPaidOverwrite(es, eid) ==
    [es EXCEPT ![eid] = [aff |-> @.aff, amount |-> 0, gross |-> 0,
                         source |-> None, session_id |-> None, paid |-> TRUE]]

\* faulty variant: the update is lost
MarkPaidLost(es, eid) == es

\* document(eid).update({"paid": True})
MarkPaid(es, eid) == [es EXCEPT ![eid].paid = TRUE]

\* faulty variant: the payout does not name the affiliate
NewPayoutNoAffiliate(aid, total) ==
    [affiliate_id |-> None, amount |-> total, status |-> "pending"]

\* the document added to affiliate_payouts
NewPayout(aid, total) ==
    [affiliate_id |-> aid, amount |-> total, status |-> "pending"]

\* faulty variant: any token that is present is accepted
AuthorizedIfPresent(admin_token) == admin_token # None

\* the negation of "admin_token != ADMIN_TOKEN"
Authorized(admin_token) == admin_token = ADMIN_TOKEN

\* the request arrives (requests are numbered in the order of arrival): the
\* token check, the db check and the start of the stream over collection
\* "affiliates"
RunStart(r, admin_token) ==
    /\ runs[r].pc = "idle"
    /\ \A q \in Runs : q < r => runs[q].pc # "idle"
    /\ IF ~Authorized(admin_token)
       THEN runs' = [runs EXCEPT ![r].pc = "unauthorized"]
       ELSE IF ~env.db
       THEN runs' = [runs EXCEPT ![r].pc = "warning"]
       ELSE runs' = [runs EXCEPT ![r].pc = "loop", ![r].affs = affiliates]
    /\ log' = [log EXCEPT
                 !.after[r] = {q \in Runs : runs[q].pc \in {"done", "failed"}},
                 !.lenAt[r] = Len(earnings),
                 !.token[r] = admin_token]
    /\ UNCHANGED <<env, store, deliveries, gens, jobs>>

\* one iteration up to the decision: the query for the unpaid earnings of the
\* next affiliate, the sum, and the comparison with the threshold
RunQuery(r) ==
    /\ runs[r].pc = "loop"
    /\ runs[r].affs # {}
    /\ LET aid   == FirstOf(AffiliateOrder, runs[r].affs)
           ids   == UnpaidEarnings(aid, earnings)
           total == SumAmounts(ids, earnings)
       IN  /\ runs' = [runs EXCEPT ![r] =
                  IF MeetsThreshold(total)
                  THEN [@ EXCEPT !.pc = "add", !.aid = aid, !.ids = ids,
                                 !.total = total]
                  ELSE [@ EXCEPT !.affs = @ \ {aid}]]
           /\ log' = [log EXCEPT !.read[r] =
                  [a \in DOMAIN @ \cup {aid} |->
                      IF a = aid THEN total ELSE @[a]]]
    /\ UNCHANGED <<env, store, deliveries, gens, jobs>>

\* db.collection("affiliate_payouts").add(...)
RunAddPayout(r) ==
    /\ runs[r].pc = "add"
    /\ payouts' = Append(payouts, NewPayout(runs[r].aid, runs[r].total))
    /\ runs' = [runs EXCEPT ![r].pc = "mark", ![r].k = 1]
    /\ log' = [log EXCEPT !.payoutOf =
                 Append(@, [run |-> r, ids |-> runs[r].ids])]
    /\ UNCHANGED <<env, affiliates, earnings, payments, users, deliveries,
                   gens, jobs>>

\* one update({"paid": True}); after the last one the entry is appended to
\* results and the loop goes on with the next affiliate
RunMarkPaid(r) ==
    /\ runs[r].pc = "mark"
    /\ LET eid == runs[r].ids[runs[r].k]
       IN  earnings' = MarkPaid(earnings, eid)
    /\ IF runs[r].k < Len(runs[r].ids)
       THEN runs' = [runs EXCEPT ![r].k = @ + 1]
       ELSE runs' = [runs EXCEPT ![r] =
                [IdleRun EXCEPT
                   !.pc = "loop",
                   !.affs = runs[r].affs \ {runs[r].aid},
                   !.results = Append(runs[r].results,
                                      [affiliate |-> runs[r].aid,
                                       amount    |-> runs[r].total])]]
    /\ UNCHANGED <<env, affiliates, payouts, payments, users, deliveries,
                   gens, jobs, log>>

\* the stream is exhausted: return {"payouts": results}
RunReturn(r) ==
    /\ runs[r].pc = "loop"
    /\ runs[r].affs = {}
    /\ runs' = [runs EXCEPT ![r].pc = "done"]
    /\ UNCHANGED <<env, store, deliveries, gens, jobs, log>>

\* the pending store call raises (or the process stops there): the call has
\* no effect, nothing catches the exception and the request ends with it
RunFail(r) ==
    /\ \/ runs[r].pc = "loop" /\ runs[r].affs # {}
       \/ runs[r].pc \in {"add", "mark"}
    /\ runs' = [runs EXCEPT ![r] = [IdleRun EXCEPT !.pc = "failed"]]
    /\ log' = [log EXCEPT
                 !.failedAt[r] = [pc |-> runs[r].pc, aid |-> runs[r].aid,
                                  left |-> runs[r].affs]]
    /\ UNCHANGED <<env, store, deliveries, gens, jobs>>

Next ==
    \/ \E sigOK \in BOOLEAN : WebhookRejected(sigOK)
    \/ \E session \in StripeEvents : WebhookCheckout(session)
    \/ \E invoice \in StripeEvents : WebhookInvoice(invoice)
    \/ \E r \in Runs, admin_token \in Tokens : RunStart(r, admin_token)
    \/ \E r \in Runs : RunQuery(r)
    \/ \E r \in Runs : RunAddPayout(r)
    \/ \E r \in Runs : RunMarkPaid(r)
    \/ \E r \in Runs : RunReturn(r)
    \/ \E r \in Runs : RunFail(r)

Spec == Init /\ [][Next]_vars

\* --------------------------------------------------------- generate_video
\* the document ensure_user_doc sets: plan and usage.videos
NewUserDoc == [plan |-> "Free", videos |-> 0]

\* udoc.get("usage", {}).get("videos", 0)
Videos(udoc) == IF "videos" \in DOMAIN udoc THEN udoc.videos ELSE 0

\* usage.videos >= 1
AtLimit(videos) == videos >= 1

\* uref.set({...}, merge=True): the fields given replace those of an
\* existing document
SetUserDoc(us, uid) ==
    [u \in DOMAIN us \cup {uid} |-> IF u = uid THEN NewUserDoc ELSE us[u]]

\* update({"usage.videos": firestore.Increment(1)})
IncrementVideos(us, uid) ==
    [us EXCEPT ![uid] = [plan |-> @.plan, videos |-> Videos(@) + 1]]

\* the request arrives (requests are numbered in the order of arrival) and
\* ensure_user_doc reads the user document.  Without a store the handler
\* reads nothing, takes the plan as Free, writes nothing and returns the url.
GenStart(g, uid) ==
    /\ gens[g].pc = "idle"
    /\ \A h \in Gens : h < g => gens[h].pc # "idle"
    /\ gens' = [gens EXCEPT ![g] =
          IF ~env.db
          THEN [IdleGen EXCEPT !.pc = "done", !.uid = uid, !.plan = "Free"]
          ELSE IF uid \in DOMAIN users
          THEN [IdleGen EXCEPT !.pc = "read", !.uid = uid]
          ELSE [IdleGen EXCEPT !.pc = "create", !.uid = uid]]
    /\ UNCHANGED <<env, store, deliveries, runs, jobs, log>>

\* ensure_user_doc found no document: it sets one
GenCreate(g) ==
    /\ gens[g].pc = "create"
    /\ users' = SetUserDoc(users, gens[g].uid)
    /\ gens' = [gens EXCEPT ![g].pc = "read"]
    /\ UNCHANGED <<env, affiliates, earnings, payouts, payments, deliveries,
                   runs, jobs, log>>

\* the handler reads the user document and decides: 403 for a Free plan at
\* its limit, otherwise on to the writes
GenRead(g) ==
    /\ gens[g].pc = "read"
    /\ LET udoc == users[gens[g].uid]
       IN  gens' = [gens EXCEPT ![g] =
              IF udoc.plan = "Free" /\ AtLimit(Videos(udoc))
              THEN [@ EXCEPT !.pc = "rejected", !.plan = udoc.plan]
              ELSE [@ EXCEPT !.pc = "update", !.plan = udoc.plan]]
    /\ UNCHANGED <<env, store, deliveries, runs, jobs, log>>

\* the increment of usage.videos
GenUpdate(g) ==
    /\ gens[g].pc = "update"
    /\ users' = IncrementVideos(users, gens[g].uid)
    /\ gens' = [gens EXCEPT ![g].pc = "job"]
    /\ UNCHANGED <<env, affiliates, earnings, payouts, payments, deliveries,
                   runs, jobs, log>>

\* db.collection("jobs").add(...) and the response with the url
GenAddJob(g) ==
    /\ gens[g].pc = "job"
    /\ jobs' = [jobs EXCEPT ![gens[g].uid] = @ + 1]
    /\ gens' = [gens EXCEPT ![g].pc = "done"]
    /\ UNCHANGED <<env, store, deliveries, runs, log>>

\* the /generate/video requests and the checkout events that name a user
NextVideo ==
    \/ \E g \in Gens, uid \in VideoUsers : GenStart(g, uid)
    \/ \E g \in Gens : GenCreate(g)
    \/ \E g \in Gens : GenRead(g)
    \/ \E g \in Gens : GenUpdate(g)
    \/ \E g \in Gens : GenAddJob(g)
    \/ \E session \in {s \in StripeEvents : Truthy(s.uid)} :
          WebhookCheckout(session)

SpecVideo == Init /\ [][NextVideo]_vars

\* ------------------------------------------------------------- properties
\* sum of the field amount of the documents of seq with an index in S
RECURSIVE AmountSum(_, _)
AmountSum(S, seq) ==
    IF S = {} THEN 0
    ELSE LET i == CHOOSE i \in S : TRUE
         IN  seq[i].amount + AmountSum(S \ {i}, seq)

Range(seq) == {seq[i] : i \in DOMAIN seq}

EarningsOf(a) == {i \in DOMAIN earnings : earnings[i].aff = a}
UnpaidOf(a) == {i \in EarningsOf(a) : ~earnings[i].paid}
PayoutsOf(a) == {i \in DOMAIN payouts : payouts[i].affiliate_id = a}
PayoutsBy(r) == {i \in DOMAIN payouts : log.payoutOf[i].run = r}

\* no payout request is in progress
Quiescent ==
    \A r \in Runs : runs[r].pc \in {"idle", "done", "unauthorized", "warning"}

\* C1 - Conservation: in every reachable state and for every affiliate, the
\* amounts of its payouts plus the amounts of its unpaid earnings equal the
\* amounts of all its earnings.  (Fails: the payout is added before the
\* earnings are marked.)
C1_Conservation ==
    \A a \in affiliates :
        AmountSum(PayoutsOf(a), payouts) + AmountSum(UnpaidOf(a), earnings)
            = AmountSum(EarningsOf(a), earnings)

\* C2 - No double-pay under concurrency: once all payout requests have run
\* to completion, no earning is counted in more than one payout.  (Fails:
\* two overlapping requests read the same unpaid earnings.)
C2_NoDoublePay ==
    Quiescent =>
        \A i, j \in DOMAIN payouts :
            i # j => Range(log.payoutOf[i].ids) \cap Range(log.payoutOf[j].ids) = {}

\* C3 - Idempotent recording: at most one earning exists per
\* (source, reference) pair, however often the event is delivered.  (Fails:
\* the webhook never looks for an existing earning.)
C3_IdempotentRecording ==
    \A i, j \in DOMAIN earnings :
        (earnings[i].source = earnings[j].source
            /\ earnings[i].session_id = earnings[j].session_id) => i = j

\* C4 - Atomic commit per affiliate: when a payout request has failed, every
\* payout it added has all the earnings it counted marked paid.  (Fails: a
\* failure between the payout write and the last update.)
C4_AtomicCommit ==
    \A r \in Runs :
        runs[r].pc = "failed" =>
            \A i \in PayoutsBy(r) :
                \A e \in Range(log.payoutOf[i].ids) : earnings[e].paid

\* the positions at which payout request r has decided to pay affiliate a but
\* has not yet added (or failed to add) the payout
AboutToAdd(r, a) ==
    \/ runs[r].pc = "add" /\ runs[r].aid = a
    \/ /\ runs[r].pc = "failed"
       /\ log.failedAt[r].pc = "add" /\ log.failedAt[r].aid = a

\* C5 - Threshold decision: a payout request adds a payout for an affiliate
\* if and only if the unpaid total it read for that affiliate is at least
\* 500 (inclusive); below 500 it adds no payout and no report entry.
C5_ThresholdDecision ==
    \A r \in Runs :
        /\ \A i \in PayoutsBy(r) : payouts[i].affiliate_id \in DOMAIN log.read[r]
        /\ \A a \in DOMAIN log.read[r] :
             LET added    == {i \in PayoutsBy(r) : payouts[i].affiliate_id = a}
                 reported == {j \in DOMAIN runs[r].results :
                                 runs[r].results[j].affiliate = a}
             IN  IF log.read[r][a] >= Dollars(500)
                 THEN \/ Cardinality(added) = 1
                      \/ added = {} /\ AboutToAdd(r, a)
                 ELSE added = {} /\ reported = {}

\* C5 witness: a completed request paid a total of exactly 500 and a
\* completed request skipped a positive total below 500
C5_Witness ==
    \E r, q \in Runs :
        /\ runs[r].pc = "done" /\ runs[q].pc = "done"
        /\ \E i \in PayoutsBy(r) : payouts[i].amount = Dollars(500)
        /\ \E a \in DOMAIN log.read[q] :
              /\ log.read[q][a] > 0 /\ log.read[q][a] < Dollars(500)
              /\ PayoutsBy(q) \cap PayoutsOf(a) = {}

\* C6 - Idempotent payout runs: when a request ran to completion and a
\* second one began after that, no earning counted in a payout of the first
\* is counted in a payout of the second; and when the second completed too
\* and no earning was recorded since the first began, every affiliate has at
\* most one payout from the two.
C6_IdempotentRuns ==
    \A r1, r2 \in Runs :
        (runs[r1].pc = "done" /\ r1 \in log.after[r2]) =>
            /\ \A i \in PayoutsBy(r1), j \in PayoutsBy(r2) :
                  Range(log.payoutOf[i].ids) \cap Range(log.payoutOf[j].ids) = {}
            /\ (runs[r2].pc = "done" /\ Len(earnings) = log.lenAt[r1]) =>
                  \A a \in affiliates :
                      Cardinality((PayoutsBy(r1) \cup PayoutsBy(r2))
                                      \cap PayoutsOf(a)) <= 1

\* C6 witness: the first request paid an affiliate, the second one read that
\* affiliate again and added nothing
C6_Witness ==
    \E r1, r2 \in Runs :
        /\ runs[r1].pc = "done" /\ runs[r2].pc = "done"
        /\ r1 \in log.after[r2]
        /\ Len(earnings) = log.lenAt[r1]
        /\ \E i \in PayoutsBy(r1) :
              /\ payouts[i].affiliate_id \in DOMAIN log.read[r2]
              /\ PayoutsBy(r2) = {}

\* request r executes the query of one affiliate in this step
Reads(r) == runs[r].pc = "loop" /\ log'.read[r] # log.read[r]

\* C7 - Roll-forward: a request that skips an affiliate leaves the earnings
\* and payouts untouched; a request that decides to pay has captured every
\* unpaid earning of the affiliate, old and new, and the payout it adds has
\* the sum of their amounts.
C7_RollForward ==
    [][\A r \in Runs :
         /\ (Reads(r) /\ runs'[r].pc = "loop") =>
               /\ earnings' = earnings /\ payouts' = payouts
               /\ runs'[r].results = runs[r].results
         /\ (Reads(r) /\ runs'[r].pc = "add") =>
               /\ Range(runs'[r].ids) = UnpaidOf(runs'[r].aid)
               /\ runs'[r].total = AmountSum(UnpaidOf(runs'[r].aid), earnings)
         /\ (runs[r].pc = "add" /\ runs'[r].pc = "mark") =>
               /\ Len(payouts') = Len(payouts) + 1
               /\ payouts'[Len(payouts')].affiliate_id = runs[r].aid
               /\ payouts'[Len(payouts')].amount
                     = AmountSum(Range(runs[r].ids), earnings)
      ]_vars

\* C7 witness: a completed request skipped an affiliate with a positive
\* balance; a later request paid that affiliate one payout covering an
\* earning the first request had seen and one recorded afterwards, all that
\* the affiliate ever earned
C7_Witness ==
    \E i \in DOMAIN payouts, q \in Runs :
        LET a == payouts[i].affiliate_id
            r == log.payoutOf[i].run
        IN  /\ runs[q].pc = "done" /\ q \in log.after[r]
            /\ a \in DOMAIN log.read[q]
            /\ log.read[q][a] > 0 /\ log.read[q][a] < Dollars(500)
            /\ \E old, new \in Range(log.payoutOf[i].ids) :
                  old <= log.lenAt[q] /\ new > log.lenAt[q]
            /\ payouts[i].amount = AmountSum(EarningsOf(a), earnings)
            /\ payouts[i].amount > log.read[q][a]

\* C8 - Run report matches committed payouts: when a payout request has
\* ended, the report its caller received lists exactly the payouts the
\* request added, with their amounts; a request that ended with an exception
\* returned no report.  (Fails: an exception after a payout was added.)
C8_ReportMatchesPayouts ==
    \A r \in Runs :
        /\ runs[r].pc = "done" =>
              /\ Len(runs[r].results) = Cardinality(PayoutsBy(r))
              /\ \A i \in PayoutsBy(r) :
                    \E j \in DOMAIN runs[r].results :
                        runs[r].results[j] =
                            [affiliate |-> payouts[i].affiliate_id,
                             amount    |-> payouts[i].amount]
        /\ runs[r].pc = "failed" => PayoutsBy(r) = {}

\* C9 - Earning creation: every earning the webhook writes is unpaid, has
\* the gross of its event (amount_total / 100 dollars) and the amount
\* gross * commission rate; gross 1000 at 0.30 gives 300.
C9_EarningCreation ==
    [][\A i \in DOMAIN earnings' \ DOMAIN earnings :
         LET e == earnings'[i]
         IN  /\ e.paid = FALSE
             /\ e.source = "stripe"
             /\ \E s \in StripeEvents :
                   /\ s.type = "checkout.session.completed"
                   /\ s.id = e.session_id
                   /\ s.affiliate_id = e.aff
                   /\ e.gross * 100 = s.amount_total * Dollars(1)
             /\ e.amount * 100 = e.gross * env.commission
             /\ (e.gross = Dollars(1000) /\ env.commission = 30)
                   => e.amount = Dollars(300)
      ]_vars

\* C9 witness: the earning of the 1000 dollar payment at commission 0.30
C9_Witness ==
    \E i \in DOMAIN earnings :
        /\ earnings[i].gross = Dollars(1000)
        /\ earnings[i].amount = Dollars(300)
        /\ earnings[i].paid = FALSE
        /\ env.commission = 30

\* the last payout added by request r
LastPayoutBy(r) ==
    CHOOSE i \in PayoutsBy(r) : \A j \in PayoutsBy(r) : j <= i

\* C10 - Crash recovery never pays twice: when a request was interrupted
\* between adding a payout and the last update, no request that began after
\* the interruption adds a payout that counts an earning of the interrupted
\* payout.  (Fails: the unmarked earnings are summed again.)
C10_NoSecondPayoutAfterCrash ==
    \A r \in Runs :
        (runs[r].pc = "failed" /\ log.failedAt[r].pc = "mark") =>
            \A j \in DOMAIN payouts :
                r \in log.after[log.payoutOf[j].run] =>
                    Range(log.payoutOf[j].ids)
                        \cap Range(log.payoutOf[LastPayoutBy(r)].ids) = {}

\* request r executes a store call of its commit in this step
Commits(r) == runs[r].pc \in {"add", "mark"} /\ runs'[r] # runs[r]

\* C11 - Earning recorded during a payout is not lost: an earning added
\* while a request is between its query and its last update is unpaid,
\* changes neither the ids nor the total the request captured, and the
\* earnings a request marks paid are exactly those it summed.
C11_EarningDuringPayout ==
    [][/\ Len(earnings') > Len(earnings) =>
            /\ ~earnings'[Len(earnings')].paid
            /\ \A r \in Runs :
                  /\ runs'[r] = runs[r]
                  /\ runs[r].pc \in {"add", "mark"} =>
                        /\ Len(earnings') \notin Range(runs[r].ids)
                        /\ runs[r].total = AmountSum(Range(runs[r].ids), earnings')
       /\ \A r \in Runs : Commits(r) =>
            \A i \in DOMAIN earnings :
                earnings'[i].paid # earnings[i].paid =>
                    /\ runs[r].pc = "mark"
                    /\ i \in Range(log.payoutOf[CHOOSE j \in PayoutsBy(r) :
                                       \A h \in PayoutsBy(r) : h <= j].ids)
                    /\ i \in Range(runs[r].ids)
      ]_vars

\* C11 witness: a request paid an affiliate; an earning of that affiliate
\* recorded after the request's query is not among the earnings it summed,
\* is still unpaid after the request returned, and the next request read it
C11_Witness ==
    \E i \in DOMAIN payouts, e \in DOMAIN earnings, q \in Runs :
        LET r == log.payoutOf[i].run
            a == payouts[i].affiliate_id
        IN  /\ runs[r].pc = "done" /\ r \in log.after[q]
            /\ earnings[e].aff = a /\ ~earnings[e].paid
            /\ e > log.lenAt[r] /\ e <= log.lenAt[q]
            /\ e \notin Range(log.payoutOf[i].ids)
            /\ \A x \in Range(log.payoutOf[i].ids) : earnings[x].paid
            /\ a \in DOMAIN log.read[q]
            /\ log.read[q][a] = earnings[e].amount

\* C12 - Earning lifecycle: no step removes an earning or changes a field
\* of an earning other than paid, and paid never goes from true to false.
C12_EarningLifecycle ==
    [][/\ Len(earnings') >= Len(earnings)
       /\ \A i \in DOMAIN earnings :
            /\ earnings'[i].aff = earnings[i].aff
            /\ earnings'[i].amount = earnings[i].amount
            /\ earnings'[i].gross = earnings[i].gross
            /\ earnings'[i].source = earnings[i].source
            /\ earnings'[i].session_id = earnings[i].session_id
            /\ earnings[i].paid => earnings'[i].paid
      ]_vars

\* C12 witness: an earning that went from unpaid to paid, next to one that
\* is still unpaid
C12_Witness ==
    \E i, j \in DOMAIN earnings :
        /\ earnings[i].paid /\ earnings[i].amount > 0
        /\ ~earnings[j].paid

\* every paid earning is counted in a payout of its affiliate
PaidHasPayout ==
    \A i \in DOMAIN earnings :
        earnings[i].paid =>
            \E j \in DOMAIN payouts :
                /\ payouts[j].affiliate_id = earnings[i].aff
                /\ i \in Range(log.payoutOf[j].ids)
                /\ payouts[j].amount
                      = AmountSum(Range(log.payoutOf[j].ids), earnings)

\* C13 - Paid only through a payout: every paid earning is counted in a
\* payout of its affiliate that the marking request added before it marked
\* the earning, and only a step of a payout request sets paid.
C13_PaidOnlyThroughPayout ==
    [][/\ PaidHasPayout'
       /\ \A i \in DOMAIN earnings :
            (~earnings[i].paid /\ earnings'[i].paid) =>
                \E r \in Runs :
                    /\ runs[r].pc = "mark" /\ runs'[r] # runs[r]
                    /\ \E j \in PayoutsBy(r) :
                          /\ i \in Range(log.payoutOf[j].ids)
                          /\ payouts[j].affiliate_id = earnings[i].aff
      ]_vars

\* C13 witness: a paid earning and the payout that counts it
C13_Witness ==
    \E i \in DOMAIN earnings, j \in DOMAIN payouts :
        /\ earnings[i].paid
        /\ i \in Range(log.payoutOf[j].ids)
        /\ payouts[j].affiliate_id = earnings[i].aff

\* the affiliate whose store call failed in request r
FailedAffiliate(r) ==
    IF log.failedAt[r].pc = "loop"
    THEN FirstOf(AffiliateOrder, log.failedAt[r].left)
    ELSE log.failedAt[r].aid

\* C14 - Failure isolation per affiliate: when a store call for one
\* affiliate has failed in a payout request, the request has still read
\* every affiliate that was left in its stream, and each of those whose
\* unpaid total is at least 500 has a payout from this request.  (Fails:
\* nothing catches the exception, the request ends at the failing call.)
C14_FailureIsolation ==
    \A r \in Runs :
        runs[r].pc = "failed" =>
            \A a \in log.failedAt[r].left \ {FailedAffiliate(r)} :
                /\ a \in DOMAIN log.read[r]
                /\ AmountSum(UnpaidOf(a), earnings) >= Dollars(500) =>
                      PayoutsBy(r) \cap PayoutsOf(a) # {}

\* request r1 was aborted between two affiliates and request r2 began after
AbortedBefore(r1, r2) ==
    /\ runs[r1].pc = "failed" /\ log.failedAt[r1].pc = "loop"
    /\ r1 \in log.after[r2]

\* C15 - Abort and resume: when a request was aborted between two
\* affiliates, the payouts it added keep their amount and all their earnings
\* are paid; a request that began afterwards and completed, with no earning
\* recorded since the aborted one began, has read every affiliate the aborted
\* one had left, paid exactly those with an unpaid total of at least 500, and
\* added no payout for an affiliate the aborted one paid.
C15_AbortAndResume ==
    \A r1, r2 \in Runs :
        AbortedBefore(r1, r2) =>
            /\ \A i \in PayoutsBy(r1) :
                  /\ \A e \in Range(log.payoutOf[i].ids) : earnings[e].paid
                  /\ payouts[i].amount
                        = AmountSum(Range(log.payoutOf[i].ids), earnings)
            /\ (runs[r2].pc = "done" /\ Len(earnings) = log.lenAt[r1]) =>
                  /\ \A i \in PayoutsBy(r1) :
                        PayoutsBy(r2) \cap PayoutsOf(payouts[i].affiliate_id) = {}
                  /\ \A a \in log.failedAt[r1].left :
                        /\ a \in DOMAIN log.read[r2]
                        /\ log.read[r2][a] >= Dollars(500)
                              <=> PayoutsBy(r2) \cap PayoutsOf(a) # {}
                        /\ Cardinality(PayoutsBy(r2) \cap PayoutsOf(a)) <= 1

\* C15 witness: the aborted request had paid one affiliate; the next request
\* read that affiliate again without paying it and paid an affiliate the
\* aborted one had left
C15_Witness ==
    \E r1, r2 \in Runs :
        /\ AbortedBefore(r1, r2)
        /\ runs[r2].pc = "done" /\ Len(earnings) = log.lenAt[r1]
        /\ \E i \in PayoutsBy(r1) :
              /\ payouts[i].affiliate_id \in DOMAIN log.read[r2]
              /\ payouts[i].affiliate_id \notin log.failedAt[r1].left
        /\ \E j \in PayoutsBy(r2) :
              payouts[j].affiliate_id \in log.failedAt[r1].left

\* C16 - Implicit affiliate creation: the owner of every earning is a
\* document of collection "affiliates"; a request that completed has read
\* every affiliate that owned an earning when it began, and has paid each of
\* them for which it read a total of at least 500.
C16_ImplicitAffiliate ==
    /\ \A e \in DOMAIN earnings : earnings[e].aff \in affiliates
    /\ \A r \in Runs :
          runs[r].pc = "done" =>
              \A e \in DOMAIN earnings :
                  e <= log.lenAt[r] =>
                      LET a == earnings[e].aff
                      IN  /\ a \in DOMAIN log.read[r]
                          /\ log.read[r][a] >= Dollars(500) =>
                                PayoutsBy(r) \cap PayoutsOf(a) # {}

\* C16 witness: an affiliate known only from the earnings the webhook
\* recorded was read and paid by a completed request
C16_Witness ==
    \E r \in Runs, i \in DOMAIN payouts :
        /\ runs[r].pc = "done" /\ i \in PayoutsBy(r)
        /\ payouts[i].affiliate_id \in affiliates
        /\ payouts[i].amount = AmountSum(EarningsOf(payouts[i].affiliate_id), earnings)
        /\ \A e \in EarningsOf(payouts[i].affiliate_id) :
              e <= log.lenAt[r] /\ earnings[e].paid

\* the checkout event with the given session id
EventOf(sid) ==
    CHOOSE s \in StripeEvents :
        s.type = "checkout.session.completed" /\ s.id = sid

\* C17 - Invalid recording input writes nothing to the ledger: every
\* earning a step adds belongs to an event that has a non-empty affiliate
\* id and a positive amount, and carries that affiliate and that amount;
\* a step adds an affiliate document only together with an earning of that
\* affiliate; a webhook step that adds no earning leaves affiliates,
\* earnings and payouts unchanged.
C17_InvalidInputNoWrite ==
    [][/\ \A i \in DOMAIN earnings' \ DOMAIN earnings :
            LET s == EventOf(earnings'[i].session_id)
            IN  /\ s.affiliate_id # "" /\ s.affiliate_id # None
                /\ s.amount_total > 0
                /\ earnings'[i].aff = s.affiliate_id
                /\ earnings'[i].gross = s.amount_total * 100
       /\ \A a \in affiliates' \ affiliates :
            /\ a # "" /\ a # None
            /\ Len(earnings') = Len(earnings) + 1
            /\ earnings'[Len(earnings')].aff = a
       /\ deliveries' # deliveries /\ Len(earnings') = Len(earnings) =>
            /\ affiliates' = affiliates
            /\ earnings' = earnings
            /\ payouts' = payouts
      ]_vars

\* C17 witness: with a store and a webhook secret, verified checkout events
\* were dropped: a payment record exists for each, and neither an earning
\* nor an affiliate document
C17_Witness ==
    /\ env.db /\ env.secret
    /\ log.dropped >= 2 /\ payments = log.dropped
    /\ earnings = <<>> /\ affiliates = {}

\* C18 - Independence between affiliates: a step of the commit of request
\* r for affiliate aid changes no earning of another affiliate and no
\* existing payout, adds no affiliate, and a payout it adds is for aid and
\* has the sum of earnings that all belong to aid.
C18_Independence ==
    [][\A r \in Runs : Commits(r) =>
          LET aid == runs[r].aid
          IN  /\ \A i \in DOMAIN earnings :
                    earnings[i].aff # aid => earnings'[i] = earnings[i]
              /\ \A i \in DOMAIN earnings :
                    earnings'[i] # earnings[i] => i \in Range(runs[r].ids)
              /\ \A e \in Range(runs[r].ids) : earnings[e].aff = aid
              /\ \A j \in DOMAIN payouts : payouts'[j] = payouts[j]
              /\ \A j \in DOMAIN payouts' \ DOMAIN payouts :
                    /\ payouts'[j].affiliate_id = aid
                    /\ payouts'[j].amount
                          = AmountSum(Range(runs[r].ids) \cap EarningsOf(aid),
                                      earnings)
              /\ affiliates' = affiliates
      ]_vars

\* C18 witness: one affiliate was paid and all the earnings counted are
\* marked, while another affiliate the same request saw has an unpaid earning
\* from before the request and no payout
C18_Witness ==
    \E i \in DOMAIN payouts, b \in affiliates :
        LET r == log.payoutOf[i].run
        IN  /\ b # payouts[i].affiliate_id
            /\ \A e \in Range(log.payoutOf[i].ids) : earnings[e].paid
            /\ \E e \in UnpaidOf(b) : e <= log.lenAt[r]
            /\ PayoutsOf(b) = {}
            /\ runs[r].pc = "done"

\* request r has been answered 401
Rejected(r) == runs[r].pc # "idle" /\ log.token[r] # ADMIN_TOKEN

\* C19 - Unauthorized payout trigger has no effect: a request whose
\* admin-token header is missing or is not ADMIN_TOKEN ends as unauthorized
\* in its first step, which leaves the store unchanged; it never reads an
\* affiliate, never adds a payout and never has a report.
C19_UnauthorizedNoEffect ==
    [][\A r \in Runs :
          /\ (runs[r].pc = "idle" /\ Rejected(r)') =>
                /\ runs'[r].pc = "unauthorized"
                /\ store' = store
          /\ Rejected(r)' =>
                /\ runs'[r].pc = "unauthorized"
                /\ runs'[r].results = <<>> /\ runs'[r].ids = <<>>
                /\ log'.read[r] = <<>>
                /\ \A i \in DOMAIN payouts' : log'.payoutOf[i].run # r
      ]_vars

\* C19 witness: a request with a wrong token and one with no token were
\* rejected while an affiliate had at least 500 unpaid; nothing was paid
C19_Witness ==
    \E r, q \in Runs :
        /\ runs[r].pc = "unauthorized" /\ log.token[r] = "guess"
        /\ runs[q].pc = "unauthorized" /\ log.token[q] = None
        /\ \E a \in affiliates :
              AmountSum(UnpaidOf(a), earnings) >= Dollars(500)
        /\ payouts = <<>>
        /\ \A e \in DOMAIN earnings : ~earnings[e].paid

\* the requests of user u that read the plan Free and returned a video
FreeSuccesses(u) ==
    {g \in Gens : gens[g].uid = u /\ gens[g].pc = "done"
                     /\ gens[g].plan = "Free"}

\* C20 - Free-plan video limit: with a store, for every user at most one
\* /generate/video request that found the plan Free has succeeded, and a
\* user whose plan is Free has usage.videos and a number of jobs of at most
\* 1, in every interleaving of the requests.  (Fails: the check reads
\* usage.videos and the increment is a later store call; two requests both
\* read 0.)
C20_FreePlanVideoLimit ==
    env.db =>
        \A u \in VideoUsers :
            /\ Cardinality(FreeSuccesses(u)) <= 1
            /\ (u \in DOMAIN users /\ users[u].plan = "Free") =>
                  Videos(users[u]) <= 1 /\ jobs[u] <= 1

====
